---- MODULE Spec2Model ----
(***************************************************************************)
(* The unlock sequencer of src/app/page.tsx: the React state of HomePage   *)
(* and useUnlockSequence, the click handlers, the three passive effects    *)
(* and the timer chain of executeSequence.                                 *)
(*                                                                         *)
(* Granularity.  A step of the model is one task of the event loop: a      *)
(* click handler with the render that commits its batched state updates,   *)
(* a timer callback with the continuation of executeSequence it resumes    *)
(* and the render of its batched updates, or the flush of the passive      *)
(* effects of the last commit with the render of the updates they make.    *)
(* The committed state between a render and the flush of its effects is a  *)
(* state of the model (EffectsPending); the flush is the next step taken:  *)
(* React flushes the pending passive effects before it renders any later   *)
(* update, and no click or timer task is interleaved between a commit and  *)
(* the flush of its effects.  State updates made in one task are batched   *)
(* into one render (React 18, which 'use client' implies).  Time is the    *)
(* simulated clock of the timers: a timer fires when its delay has         *)
(* elapsed and time does not pass a due timer.                             *)
(***************************************************************************)
EXTENDS Integers, Sequences, FiniteSets, TLC

\* Largest run token the model explores (startUnlock is not taken beyond it).
MaxRuns == 2
\* Number of clock ticks observed while no timer is pending (after a run has
\* completed, after a reset).
Slack == 2

\* STEP_SEQUENCE[k].duration in milliseconds, k = 1..N (index i of the code is k-1).
STEP_SEQUENCE == <<1200, 1500, 1400, 1100, 1300>>
\* The three narration lines, by a short name each.
DEMO_SCRIPT == <<"calibration", "noir", "theatre">>

N == Len(STEP_SEQUENCE)
M == Len(DEMO_SCRIPT)

Tokens == 1..MaxRuns

RECURSIVE Gcd(_, _)
Gcd(a, b) == IF b = 0 THEN a ELSE Gcd(b, a % b)

RECURSIVE GcdOfDurations(_)
GcdOfDurations(k) == IF k = 0 THEN 0 ELSE Gcd(STEP_SEQUENCE[k], GcdOfDurations(k - 1))

\* One tick of the simulated clock: the largest step that lands on every timer deadline.
Quantum == GcdOfDurations(N)

\* d0 + ... + d(k-1): the time at which step k begins in an uninterrupted run.
RECURSIVE SumDurations(_)
SumDurations(k) == IF k = 0 THEN 0 ELSE STEP_SEQUENCE[k] + SumDurations(k - 1)

TotalDuration == SumDurations(N)

\* Math.round(num / den) for num >= 0, den > 0: floor(num/den + 1/2).
MathRound(num, den) == (2 * num + den) \div (2 * den)

\* The JavaScript remainder, whose sign is the sign of the dividend.
JsMod(a, b) == IF a >= 0 THEN a % b ELSE 0 - ((0 - a) % b)

VARIABLES
    phase,        \* useState<UnlockPhase>('idle')
    runToken,     \* useState(0)
    previewMode,  \* useState<PreviewMode>('light')
    scriptIndex,  \* useState(0)
    stepIndex,    \* useUnlockSequence: useState(-1)
    progress,     \* useUnlockSequence: useState(0)
    seen,         \* the dependency values the passive effects last ran with
    run,          \* per run token: the closure of the sequencer effect
    elapsed,      \* simulated ms since the last startUnlock / resetUnlock
    mounted,      \* the component is mounted
    lastEvent,    \* the task that produced this state
    actor,        \* the run whose timer callback produced this state, else 0
    beatBefore    \* scriptIndex before the last task

vars == <<phase, runToken, previewMode, scriptIndex, stepIndex, progress,
          seen, run, elapsed, mounted, lastEvent, actor, beatBefore>>

\* A run closure that the effect has not created yet.
\* (i: the loop variable; timer: the state of the last handle pushed to timeouts;
\* remaining: ms until that timer is due; done: calls of onComplete made by the
\* run; endedIn: the phase rendered when the closure's cleanup ran, "" before).
NoRun ==
    [i |-> -1, cancelled |-> FALSE, timer |-> "none", remaining |-> 0, done |-> 0,
     endedIn |-> ""]

Init ==
    /\ phase = "idle"
    /\ runToken = 0
    /\ previewMode = "light"
    /\ scriptIndex = 0
    /\ stepIndex = -1
    /\ progress = 0
    /\ seen = [phase |-> "idle", runToken |-> 0, stepIndex |-> -1]
    /\ run = [r \in Tokens |-> NoRun]
    /\ elapsed = 0
    /\ mounted = TRUE
    /\ lastEvent = "mount"
    /\ actor = 0
    /\ beatBefore = 0

\* The last commit changed a dependency of some effect, which has not run yet.
EffectsPending ==
    \/ seen.phase # phase
    \/ seen.runToken # runToken
    \/ seen.stepIndex # stepIndex

\* The page accepts a user event or a timer task.
Ready == mounted /\ ~EffectsPending

(***************************************************************************)
(* useUnlockSequence                                                       *)
(***************************************************************************)

\* Mutant: the step's progress computed from i instead of i + 1.
StepProgressFromIndex(i) == MathRound(i * 90, N + 1)

\* Mutant: the bar filled evenly over the N steps, with no share kept for completion.
StepProgressFullScale(i) == MathRound((i + 1) * 100, N)

\* setProgress(Math.round(((i + 1) / (STEP_SEQUENCE.length + 1)) * 90)), i 0-based.
StepProgress(i) == MathRound((i + 1) * 90, N + 1)

\* Mutant: the effect returns no cleanup, so nothing is cancelled or cleared.
NoSequencerCleanup(rs, r) == rs

\* Mutant: the cleanup sets the flag but leaves the timeouts uncleared.
SequencerCleanupWithoutClear(rs, r) == [rs EXCEPT ![r].cancelled = TRUE]

\* The effect's cleanup for the closure of run r: cancelled = true, and every
\* handle of timeouts is cleared (only the last one can still be pending).
SequencerCleanup(rs, r) ==
    [rs EXCEPT ![r].cancelled = TRUE, ![r].timer = "none", ![r].remaining = 0]

\* Mutant: the first await waits for the next step's duration.
ExecuteFirstStepWrongDelay(rs, r) ==
    [rs EXCEPT ![r] = [i |-> 0, cancelled |-> FALSE, timer |-> "pending",
                       remaining |-> STEP_SEQUENCE[2], done |-> 0, endedIn |-> ""]]

\* Mutant: the effect never calls executeSequence().
ExecuteSequenceNotCalled(rs, r) == rs

\* executeSequence() called by the effect for run r: the loop's first pass,
\* up to the first await (cancelled is false in a fresh closure).
ExecuteFirstStep(rs, r) ==
    [rs EXCEPT ![r] = [i |-> 0, cancelled |-> FALSE, timer |-> "pending",
                       remaining |-> STEP_SEQUENCE[1], done |-> 0, endedIn |-> ""]]

\* The sequencer effect ran its cleanup and body in this flush.
SequencerEffectRuns == seen.phase # phase \/ seen.runToken # runToken
\* The completion effect has [phase] for dependencies.
CompletionEffectRuns == seen.phase # phase
\* The narration effect has [phase, stepIndex] for dependencies.
NarrationEffectRuns == seen.phase # phase \/ seen.stepIndex # stepIndex

\* The body of the sequencer effect starts a run: phase is 'running'.
SequencerStarts == SequencerEffectRuns /\ phase = "running"
\* The previous run of the sequencer effect returned a cleanup.
SequencerCleans == SequencerEffectRuns /\ seen.phase = "running"

\* Mutant: the completion effect forces the preview only, not the narration beat.
CompletionEffectPreviewOnly(pm, si) ==
    IF CompletionEffectRuns /\ phase = "complete"
    THEN [previewMode |-> "dark", scriptIndex |-> si]
    ELSE [previewMode |-> pm, scriptIndex |-> si]

\* useEffect [phase]: on 'complete', setPreviewMode('dark'); setScriptIndex(2).
CompletionEffect(pm, si) ==
    IF CompletionEffectRuns /\ phase = "complete"
    THEN [previewMode |-> "dark", scriptIndex |-> 2]
    ELSE [previewMode |-> pm, scriptIndex |-> si]

\* Mutant: the narration effect clamps the step index to the last beat.
NarrationEffectClamped(si) ==
    IF NarrationEffectRuns /\ phase = "running" /\ stepIndex >= 0
    THEN IF stepIndex < M THEN stepIndex ELSE M - 1
    ELSE si

\* Mutant: the narration effect without its stepIndex < DEMO_SCRIPT.length guard.
NarrationEffectUnguarded(si) ==
    IF NarrationEffectRuns /\ phase = "running" /\ stepIndex >= 0
    THEN stepIndex
    ELSE si

\* useEffect [phase, stepIndex]: while running, setScriptIndex(stepIndex) for
\* the step indices that are narration indices.
NarrationEffect(si) ==
    IF NarrationEffectRuns /\ phase = "running" /\ stepIndex >= 0 /\ stepIndex < M
    THEN stepIndex
    ELSE si

\* The passive effects of the last commit, in the order of their declaration,
\* and the render that commits the state updates they made.
FlushEffects ==
    /\ mounted
    /\ EffectsPending
    /\ LET cleaned == IF SequencerCleans
                      THEN [SequencerCleanup(run, seen.runToken)
                              EXCEPT ![seen.runToken].endedIn = phase]
                      ELSE run
           afterCompletion == CompletionEffect(previewMode, scriptIndex)
       IN  /\ run' = IF SequencerStarts THEN ExecuteFirstStep(cleaned, runToken) ELSE cleaned
           /\ stepIndex' = IF SequencerStarts THEN 0 ELSE stepIndex
           /\ progress' = IF SequencerStarts THEN StepProgress(0) ELSE progress
           /\ previewMode' = afterCompletion.previewMode
           /\ scriptIndex' = NarrationEffect(afterCompletion.scriptIndex)
    /\ seen' = [phase |-> phase, runToken |-> runToken, stepIndex |-> stepIndex]
    /\ lastEvent' = "effects"
    /\ actor' = 0
    /\ beatBefore' = scriptIndex
    /\ UNCHANGED <<phase, runToken, elapsed, mounted>>

\* Mutant: the completion callback sends the page back to 'idle'.
handleSequenceCompleteToIdle == "idle"

\* handleSequenceComplete: setPhase('complete').
handleSequenceComplete == "complete"

\* A timer of run r fires: the promise resolves and executeSequence resumes
\* with i += 1, up to its next await or its end.  The state updates of the
\* continuation are committed in one render; after unmount they are dropped.
TimerFires(r) ==
    /\ ~EffectsPending
    /\ run[r].timer = "pending"
    /\ run[r].remaining = 0
    /\ LET i == run[r].i + 1
           cancelled == run[r].cancelled
           writes == mounted /\ ~cancelled
       IN  IF i < N
           THEN /\ run' = IF cancelled
                          THEN [run EXCEPT ![r].i = i, ![r].timer = "none"]
                          ELSE [run EXCEPT ![r].i = i, ![r].timer = "pending",
                                           ![r].remaining = STEP_SEQUENCE[i + 1]]
                /\ stepIndex' = IF writes THEN i ELSE stepIndex
                /\ progress' = IF writes THEN StepProgress(i) ELSE progress
                /\ phase' = phase
           ELSE /\ run' = [run EXCEPT ![r].i = i, ![r].timer = "none",
                                      ![r].done = IF cancelled THEN @ ELSE @ + 1]
                /\ stepIndex' = stepIndex
                /\ progress' = IF writes THEN 100 ELSE progress
                /\ phase' = IF writes THEN handleSequenceComplete ELSE phase
    /\ lastEvent' = "timer"
    /\ actor' = r
    /\ beatBefore' = scriptIndex
    /\ UNCHANGED <<runToken, previewMode, scriptIndex, seen, elapsed, mounted>>

TimerFire == \E r \in Tokens : TimerFires(r)

\* Some timer is pending / is due now.
TimerPending == \E r \in Tokens : run[r].timer = "pending"
TimerDue == \E r \in Tokens : run[r].timer = "pending" /\ run[r].remaining = 0

\* The simulated clock advances by one quantum; it does not pass a due timer.
Tick ==
    /\ mounted
    /\ ~EffectsPending
    /\ ~TimerDue
    /\ \/ TimerPending
       \/ phase = "complete" /\ elapsed < TotalDuration + Slack * Quantum
       \/ phase = "idle" /\ elapsed < Slack * Quantum
    /\ elapsed' = elapsed + Quantum
    /\ run' = [r \in Tokens |->
                 IF run[r].timer = "pending"
                 THEN [run[r] EXCEPT !.remaining = @ - Quantum]
                 ELSE run[r]]
    /\ lastEvent' = "tick"
    /\ actor' = 0
    /\ beatBefore' = scriptIndex
    /\ UNCHANGED <<phase, runToken, previewMode, scriptIndex, stepIndex, progress,
                   seen, mounted>>

(***************************************************************************)
(* HomePage                                                                *)
(***************************************************************************)

\* Mutant: resetSequence forgets setProgress(0).
resetSequenceKeepsProgress == [stepIndex |-> -1, progress |-> progress]

\* Mutant: resetSequence puts the index on the first step instead of -1.
resetSequenceToFirstStep == [stepIndex |-> 0, progress |-> 0]

\* resetSequence(): setStepIndex(-1); setProgress(0).
resetSequence == [stepIndex |-> -1, progress |-> 0]

\* startUnlock(): the handler's batched updates and the render committing them.
startUnlock ==
    /\ Ready
    /\ runToken < MaxRuns
    /\ stepIndex' = resetSequence.stepIndex
    /\ progress' = resetSequence.progress
    /\ phase' = "running"
    /\ previewMode' = "light"
    /\ scriptIndex' = 0
    /\ runToken' = runToken + 1
    /\ elapsed' = 0
    /\ lastEvent' = "startUnlock"
    /\ actor' = 0
    /\ beatBefore' = scriptIndex
    /\ UNCHANGED <<seen, run, mounted>>

\* resetUnlock(): the handler's batched updates and the render committing them.
resetUnlock ==
    /\ Ready
    /\ stepIndex' = resetSequence.stepIndex
    /\ progress' = resetSequence.progress
    /\ phase' = "idle"
    /\ previewMode' = "light"
    /\ scriptIndex' = 0
    /\ elapsed' = 0
    /\ lastEvent' = "resetUnlock"
    /\ actor' = 0
    /\ beatBefore' = scriptIndex
    /\ UNCHANGED <<runToken, seen, run, mounted>>

\* Mutant: the toggle only ever switches the preview to dark.
TogglePreviewModeToDark(mode) == "dark"

\* setPreviewMode((mode) => (mode === 'light' ? 'dark' : 'light')).
TogglePreviewMode(mode) == IF mode = "light" THEN "dark" ELSE "light"

togglePreview ==
    /\ Ready
    /\ previewMode' = TogglePreviewMode(previewMode)
    /\ lastEvent' = "togglePreview"
    /\ actor' = 0
    /\ beatBefore' = scriptIndex
    /\ UNCHANGED <<phase, runToken, scriptIndex, stepIndex, progress, seen, run,
                   elapsed, mounted>>

\* Mutant: the decrement without the + DEMO_SCRIPT.length that keeps it positive.
PreviousBeatIndexNoWrap(prev) == JsMod(prev - 1, M)

\* (prev) => (prev - 1 + DEMO_SCRIPT.length) % DEMO_SCRIPT.length
PreviousBeatIndex(prev) == JsMod(prev - 1 + M, M)
\* (prev) => (prev + 1) % DEMO_SCRIPT.length
NextBeatIndex(prev) == JsMod(prev + 1, M)

\* onClick of the Previous Beat button.
previousBeat ==
    /\ Ready
    /\ scriptIndex' = PreviousBeatIndex(scriptIndex)
    /\ lastEvent' = "previousBeat"
    /\ actor' = 0
    /\ beatBefore' = scriptIndex
    /\ UNCHANGED <<phase, runToken, previewMode, stepIndex, progress, seen, run,
                   elapsed, mounted>>

\* onClick of the Next Beat button.
nextBeat ==
    /\ Ready
    /\ scriptIndex' = NextBeatIndex(scriptIndex)
    /\ lastEvent' = "nextBeat"
    /\ actor' = 0
    /\ beatBefore' = scriptIndex
    /\ UNCHANGED <<phase, runToken, previewMode, stepIndex, progress, seen, run,
                   elapsed, mounted>>

\* Mutant: the button carries no disabled attribute.
NeverDisabled == FALSE

\* disabled={phase === 'running'} of the Unlock Dark Mode button.
UnlockDisabled == phase = "running"
\* disabled={phase === 'running'} of the Reset Demo button.
ResetDisabled == phase = "running"

\* A click on a button reaches its handler unless the button is disabled.
ClickUnlock == ~UnlockDisabled /\ startUnlock
ClickReset == ~ResetDisabled /\ resetUnlock

\* The status of timeline entry index (0-based) in the rendered timeline.
TimelineStatus(index) ==
    IF index < stepIndex THEN "complete"
    ELSE IF index = stepIndex THEN "active"
    ELSE IF phase = "complete" THEN "complete"
    ELSE "pending"

\* The page is torn down: React runs the cleanup of the sequencer effect.
Unmount ==
    /\ Ready
    /\ mounted' = FALSE
    /\ run' = IF seen.phase = "running"
              THEN [SequencerCleanup(run, seen.runToken)
                      EXCEPT ![seen.runToken].endedIn = "unmounted"]
              ELSE run
    /\ lastEvent' = "unmount"
    /\ actor' = 0
    /\ beatBefore' = scriptIndex
    /\ UNCHANGED <<phase, runToken, previewMode, scriptIndex, stepIndex, progress,
                   seen, elapsed>>

\* The page as its user drives it: every intent comes from a button.
Next ==
    \/ ClickUnlock
    \/ ClickReset
    \/ togglePreview
    \/ previousBeat
    \/ nextBeat
    \/ FlushEffects
    \/ TimerFire
    \/ Tick
    \/ Unmount

Spec == Init /\ [][Next]_vars

\* The handlers called whatever the buttons show, as a test of the handlers
\* (or a click racing the render that disables the button) calls them.
InvokeStart == phase = "running" /\ startUnlock
InvokeReset == phase = "running" /\ resetUnlock

NextDirect ==
    \/ Next
    \/ InvokeStart
    \/ InvokeReset

SpecDirect == Init /\ [][NextDirect]_vars

(***************************************************************************)
(* Properties                                                              *)
(***************************************************************************)

\* No effect is pending, no timer is due: the state a simulated clock shows.
Settled == mounted /\ ~EffectsPending /\ ~TimerDue

\* The run of the current token has resumed from all N of its timers.
AllTimersFired == runToken \in Tokens /\ run[runToken].i = N

\* The integer nearest to num / den, halves up, said without MathRound.
IsRounded(p, num, den) == 2 * p * den <= 2 * num + den /\ 2 * num + den < 2 * (p + 1) * den

\* C1: a run whose N step timers have all fired is Complete with progress 100
\* and currentStepIndex N-1 after the time d0 + ... + d(N-1), and once the
\* effects of that render have run the preview is Dark and the narration is at
\* its final beat M-1, whatever the user toggled or navigated during the run.
C1_RunEndsComplete ==
    /\ (AllTimersFired /\ lastEvent = "timer") => phase = "complete"
    /\ (phase = "complete" /\ lastEvent \in {"timer", "effects"}) =>
          /\ AllTimersFired
          /\ run[runToken].done = 1
          /\ elapsed = TotalDuration
          /\ progress = 100
          /\ stepIndex = N - 1
          /\ lastEvent = "effects" =>
                /\ previewMode = "dark"
                /\ scriptIndex = M - 1

\* C1 witness: the completion effect has run after a run during which the user
\* had navigated away from the final beat.
C1_Witness ==
    /\ phase = "complete"
    /\ lastEvent = "effects"
    /\ AllTimersFired
    /\ beatBefore = 0
    /\ scriptIndex = M - 1
    /\ previewMode = "dark"

\* C2: during a run, at every settled time t with d0+...+d(k-1) <= t < d0+...+dk
\* the step index is k and progress is round(((k+1)/(N+1))*90); with the shipped
\* durations that is step 0 / 15 at t = 0, step 1 / 30 at t = 1200, and
\* Complete / 100 from t = 6500 on.
C2_StepAndProgressAtTime ==
    Settled =>
       /\ \A k \in 0..(N - 1) :
             (phase = "running" /\ SumDurations(k) <= elapsed /\ elapsed < SumDurations(k + 1)) =>
                 /\ stepIndex = k
                 /\ IsRounded(progress, (k + 1) * 90, N + 1)
       /\ (phase = "running" /\ elapsed = 0) => (stepIndex = 0 /\ progress = 15)
       /\ (phase = "running" /\ elapsed = 1200) => (stepIndex = 1 /\ progress = 30)
       /\ phase = "running" => elapsed < TotalDuration
       /\ (phase # "idle" /\ elapsed >= 6500) => (phase = "complete" /\ progress = 100)

\* C2 witness: the run is settled 1200 ms after its start, on step 1 at 30%.
C2_Witness ==
    /\ Settled
    /\ phase = "running"
    /\ elapsed = 1200
    /\ stepIndex = 1
    /\ progress = 30

\* The tasks that are user intents; the others are timers, effects and the clock.
UserIntents == {"startUnlock", "resetUnlock", "togglePreview", "previousBeat", "nextBeat"}

\* C3: resetUnlock, also when invoked while a run is in progress, leaves
\* Phase=Idle, PreviewMode=Light, NarrationBeatIndex=0, currentStepIndex=-1 and
\* progress=0, and from an idle page no timer, effect or clock task changes any
\* of these: they keep their values until the next user intent.
C3_ResetCancelsRun ==
    [][ /\ lastEvent' = "resetUnlock" =>
              /\ phase' = "idle"
              /\ previewMode' = "light"
              /\ scriptIndex' = 0
              /\ stepIndex' = -1
              /\ progress' = 0
        /\ (phase = "idle" /\ lastEvent' \notin UserIntents) =>
              UNCHANGED <<phase, previewMode, scriptIndex, stepIndex, progress>>
      ]_vars

\* C3 witness: time has passed on the idle page after a reset that cancelled a
\* run which had not played all its steps.
C3_Witness ==
    /\ phase = "idle"
    /\ lastEvent = "tick"
    /\ runToken \in Tokens
    /\ run[runToken].endedIn = "idle"
    /\ run[runToken].i \in 0..(N - 2)
    /\ run[runToken].done = 0
    /\ stepIndex = -1
    /\ progress = 0
    /\ previewMode = "light"
    /\ scriptIndex = 0

\* C4: once a newer run token exists, an older run never advances its loop and
\* never calls the completion callback, and every timer task that changes
\* currentStepIndex, progress, Phase or NarrationBeatIndex is a task of the run
\* with the newest token.
C4_StaleRunIsInert ==
    [][ /\ \A r \in Tokens :
              r # runToken' => (run'[r].i = run[r].i /\ run'[r].done = run[r].done)
        /\ (lastEvent' = "timer" /\ actor' # runToken') =>
              UNCHANGED <<stepIndex, progress, phase, scriptIndex>>
      ]_vars

\* C4 witness: a run was superseded mid-flight by a new start, and the new
\* run has since advanced to a later step on its own timer.
C4_Witness ==
    /\ runToken \in Tokens
    /\ runToken > 1
    /\ run[runToken - 1].endedIn = "running"
    /\ run[runToken - 1].i \in 0..(N - 1)
    /\ run[runToken - 1].done = 0
    /\ lastEvent = "timer"
    /\ actor = runToken
    /\ stepIndex = 2

\* C5: progress decreases only in a resetUnlock or startUnlock step, so within
\* one run it never decreases, and it is 100 only when the run of the current
\* token has completed and has no step timer pending.
C5_ProgressMonotone ==
    [][ /\ progress' < progress => lastEvent' \in {"resetUnlock", "startUnlock"}
        /\ progress' = 100 =>
              /\ runToken' \in Tokens
              /\ run'[runToken'].done = 1
              /\ run'[runToken'].timer = "none"
      ]_vars

\* C5 witness: the run has completed and shows 100, having shown the last
\* step's intermediate value just before.
C5_Witness ==
    /\ progress = 100
    /\ lastEvent = "timer"
    /\ runToken \in Tokens
    /\ run[runToken].done = 1

\* C6: when Phase=Complete every step of the catalog, the last one included,
\* is shown as complete in the timeline.
C6_AllStepsCompleteWhenComplete ==
    phase = "complete" => \A index \in 0..(N - 1) : TimelineStatus(index) = "complete"

\* C7: the phase starts at Idle and changes only by startUnlock from Idle or
\* Complete to Running, by resetUnlock from Running or Complete to Idle, and
\* from Running to Complete by the timer task of the current run that ends the
\* last step; Idle never goes to Complete.
C7_PhaseTransitions ==
    /\ phase = "idle"
    /\ [][ phase' # phase =>
             \/ phase = "idle" /\ phase' = "running" /\ lastEvent' = "startUnlock"
             \/ phase = "complete" /\ phase' = "running" /\ lastEvent' = "startUnlock"
             \/ phase = "running" /\ phase' = "idle" /\ lastEvent' = "resetUnlock"
             \/ phase = "complete" /\ phase' = "idle" /\ lastEvent' = "resetUnlock"
             \/ /\ phase = "running" /\ phase' = "complete"
                /\ lastEvent' = "timer"
                /\ actor' = runToken
                /\ run[actor'].i = N - 1
                /\ run'[actor'].i = N
         ]_vars

\* C7 witness: Complete was entered from Running by the last step's timer.
C7_Witness ==
    /\ phase = "complete"
    /\ seen.phase = "running"
    /\ lastEvent = "timer"
    /\ AllTimersFired

\* C8: no startUnlock and no resetUnlock is dispatched from a state with
\* Phase=Running: both buttons are disabled exactly in the states with
\* Phase=Running, and a page that accepts events accepts Start and Reset in
\* every other phase and Toggle Preview, Previous Beat and Next Beat in all.
C8_ControlsWhileRunning ==
    /\ [](UnlockDisabled <=> phase = "running")
    /\ [](ResetDisabled <=> phase = "running")
    /\ []((Ready /\ phase # "running") => ENABLED ClickReset)
    /\ []((Ready /\ phase # "running" /\ runToken < MaxRuns) => ENABLED ClickUnlock)
    /\ [](Ready => (ENABLED togglePreview /\ ENABLED previousBeat /\ ENABLED nextBeat))
    /\ [][lastEvent' \in {"startUnlock", "resetUnlock"} => phase # "running"]_vars

\* C8 witness: the preview was toggled during a run, whose timer is pending.
C8_Witness ==
    /\ phase = "running"
    /\ lastEvent = "togglePreview"
    /\ UnlockDisabled
    /\ ResetDisabled
    /\ TimerPending

\* C9: togglePreview flips PreviewMode in every phase and leaves Phase,
\* currentStepIndex, progress, the run token, the narration beat and the runs'
\* closures with their pending timers unchanged.
C9_ToggleFrame ==
    [][ lastEvent' = "togglePreview" =>
          /\ previewMode = "light" => previewMode' = "dark"
          /\ previewMode = "dark" => previewMode' = "light"
          /\ UNCHANGED <<phase, stepIndex, progress, runToken, scriptIndex, run>>
      ]_vars

\* C9 witness: the forced Dark preview of a completed run was toggled to Light.
C9_Witness ==
    /\ lastEvent = "togglePreview"
    /\ phase = "complete"
    /\ previewMode = "light"
    /\ progress = 100

\* C10: nextBeat and previousBeat move the beat by one inside 0..M-1 and wrap:
\* previousBeat from 0 yields M-1, nextBeat from M-1 yields 0, and either one
\* right after the other restores the beat.
C10_BeatsAreCyclic ==
    [][ /\ lastEvent' = "nextBeat" =>
              IF scriptIndex = M - 1 THEN scriptIndex' = 0 ELSE scriptIndex' = scriptIndex + 1
        /\ lastEvent' = "previousBeat" =>
              IF scriptIndex = 0 THEN scriptIndex' = M - 1 ELSE scriptIndex' = scriptIndex - 1
        /\ (lastEvent = "nextBeat" /\ lastEvent' = "previousBeat") => scriptIndex' = beatBefore
        /\ (lastEvent = "previousBeat" /\ lastEvent' = "nextBeat") => scriptIndex' = beatBefore
        /\ lastEvent' \in {"nextBeat", "previousBeat"} =>
              UNCHANGED <<phase, previewMode, stepIndex, progress, runToken>>
      ]_vars

\* C10 witness: previousBeat wrapped from beat 0 to beat M-1 during a run.
C10_Witness ==
    /\ lastEvent = "previousBeat"
    /\ beatBefore = 0
    /\ scriptIndex = M - 1
    /\ phase = "running"

\* C11: startUnlock, from whatever state it is accepted in, commits
\* currentStepIndex=-1, progress=0, Phase=Running, PreviewMode=Light,
\* NarrationBeatIndex=0 and the run token incremented by exactly 1, and the
\* effects of that commit start the run of the new token: they set
\* currentStepIndex=0 and progress=round((1/(N+1))*90) and schedule the first
\* step's timer.
C11_StartUnlockEffect ==
    [][ /\ lastEvent' = "startUnlock" =>
              /\ stepIndex' = -1
              /\ progress' = 0
              /\ phase' = "running"
              /\ previewMode' = "light"
              /\ scriptIndex' = 0
              /\ runToken' = runToken + 1
        /\ (lastEvent = "startUnlock" /\ lastEvent' = "effects") =>
              /\ stepIndex' = 0
              /\ IsRounded(progress', 90, N + 1)
              /\ runToken' = runToken
              /\ run'[runToken].i = 0
              /\ run'[runToken].timer = "pending"
              /\ run'[runToken].remaining = STEP_SEQUENCE[1]
              /\ ~run'[runToken].cancelled
      ]_vars

\* C11 witness: a second run has been started from a completed one (progress
\* 100, step N-1, Dark, final beat) and its first step is showing.
C11_Witness ==
    /\ lastEvent = "effects"
    /\ runToken = 2
    /\ run[1].endedIn = "complete"
    /\ phase = "running"
    /\ seen.stepIndex = -1
    /\ stepIndex = 0
    /\ progress = 15
    /\ previewMode = "light"
    /\ scriptIndex = 0
    /\ run[2].timer = "pending"

\* The effects being flushed are those of a commit that advanced the running
\* sequencer to step stepIndex.
AdvanceFlush == lastEvent' = "effects" /\ phase = "running" /\ seen.stepIndex # stepIndex /\ stepIndex >= 0

\* C12 as claimed: on every advance to step i while running, the narration
\* beat becomes min(i, M-1), whatever beat the user had navigated to.
C12_NarrationClampedOnAdvance ==
    [][ AdvanceFlush => scriptIndex' = IF stepIndex < M THEN stepIndex ELSE M - 1 ]_vars

\* C12 amended: on an advance to a step i < M while running the narration beat
\* becomes i, whatever beat the user had navigated to; an advance to a step
\* i >= M (steps 3 and 4) leaves the narration beat as it was.
C12_NarrationTracksFirstBeats ==
    [][ AdvanceFlush => scriptIndex' = IF stepIndex < M THEN stepIndex ELSE scriptIndex ]_vars

\* C12 witness: the effects of the advance to step 3 have run and the beat is
\* still the beat 0 the user had navigated to.
C12_Witness ==
    /\ lastEvent = "effects"
    /\ phase = "running"
    /\ stepIndex = 3
    /\ seen.stepIndex = 3
    /\ beatBefore = 0
    /\ scriptIndex = 0

\* The states between two tasks of the mounted page: every state but the one
\* inside a click's task, between the handler's commit and the effects that
\* React flushes synchronously with it.
BetweenTasks == mounted /\ (~EffectsPending \/ lastEvent = "timer")

\* C13: between tasks, Phase=Running implies that the run of the current token
\* is active, with its step timer the one pending timer, and Phase=Idle or
\* Phase=Complete implies that no step timer is pending for any run.
C13_RunningIffTimerPending ==
    BetweenTasks =>
       /\ phase = "running" =>
             /\ runToken \in Tokens
             /\ run[runToken].timer = "pending"
             /\ ~run[runToken].cancelled
             /\ \A r \in Tokens : r # runToken => run[r].timer = "none"
       /\ phase \in {"idle", "complete"} => ~TimerPending

\* C13 witness: the page is idle with no timer pending after a reset that hit
\* a run on its third step.
C13_Witness ==
    /\ BetweenTasks
    /\ phase = "idle"
    /\ runToken \in Tokens
    /\ run[runToken].endedIn = "idle"
    /\ run[runToken].i = 2
    /\ ~TimerPending

\* The runs that have a pending timer.
PendingRuns == {r \in Tokens : run[r].timer = "pending"}

\* C14: in every state at most one step timer is pending over all run tokens,
\* and a pending timer belongs to a run that is not cancelled.
C14_AtMostOneActiveRun ==
    /\ Cardinality(PendingRuns) <= 1
    /\ \A r \in PendingRuns : ~run[r].cancelled

\* C14 witness: the second run's timer is pending after the first run was
\* superseded mid-flight, its own timer cleared.
C14_Witness ==
    /\ runToken = 2
    /\ run[1].endedIn = "running"
    /\ run[1].i \in 0..(N - 1)
    /\ run[1].timer = "none"
    /\ run[2].timer = "pending"
    /\ run[2].i = 1

\* C15: within one run the step index changes only by +1: from -1 to 0 when
\* the effect starts the run, and from i to i+1 in the timer task of the
\* current run that ends step i, exactly when d0+...+di have elapsed; the
\* completion happens only in the timer task that ends step N-1, after the
\* whole d0+...+d(N-1).
C15_StepsInOrder ==
    [][ /\ (stepIndex' # stepIndex /\ lastEvent' \notin {"startUnlock", "resetUnlock"}) =>
              /\ stepIndex' = stepIndex + 1
              /\ stepIndex' \in 0..(N - 1)
              /\ runToken' = runToken
              /\ elapsed' = SumDurations(stepIndex')
              /\ stepIndex = -1 => lastEvent' = "effects"
              /\ stepIndex >= 0 =>
                    /\ lastEvent' = "timer"
                    /\ actor' = runToken
                    /\ run[runToken].i = stepIndex
                    /\ run[runToken].remaining = 0
        /\ (phase' = "complete" /\ phase # "complete") =>
              /\ lastEvent' = "timer"
              /\ actor' = runToken
              /\ stepIndex = N - 1
              /\ run[runToken].i = N - 1
              /\ run[runToken].remaining = 0
              /\ elapsed' = TotalDuration
      ]_vars

\* C15 witness: the run has just advanced to its last step, after the
\* durations of all the steps before it.
C15_Witness ==
    /\ lastEvent = "timer"
    /\ phase = "running"
    /\ stepIndex = N - 1
    /\ seen.stepIndex = N - 2
    /\ elapsed = SumDurations(N - 1)

\* C16: every run calls the completion callback at most once; it has called it
\* once exactly when all its N timers have fired, and a run whose cleanup ran
\* for a reset, a superseding start or the teardown did not play all N steps
\* and has called it zero times.
C16_CompletionExactlyOnce ==
    \A r \in Tokens :
       /\ run[r].done \in {0, 1}
       /\ run[r].done = 1 <=> run[r].i = N
       /\ run[r].endedIn \in {"idle", "running", "unmounted"} =>
             (run[r].done = 0 /\ run[r].i < N /\ run[r].cancelled)
       /\ run[r].endedIn = "complete" => run[r].done = 1

\* C16 witness: the first run completed and called the callback once; the
\* second was cancelled on its second step and never called it.
C16_Witness ==
    /\ runToken = 2
    /\ run[1].done = 1
    /\ run[1].endedIn = "complete"
    /\ run[2].endedIn \in {"idle", "unmounted"}
    /\ run[2].i = 1
    /\ run[2].done = 0

\* C17: the teardown leaves no step timer pending, and once the page is torn
\* down no task changes currentStepIndex, progress, Phase or any run's closure
\* (no timer callback runs, no completion callback is called).
C17_TeardownCancels ==
    [][ /\ lastEvent' = "unmount" => \A r \in Tokens : run'[r].timer = "none"
        /\ ~mounted => UNCHANGED <<stepIndex, progress, phase, run>>
      ]_vars

\* C17 witness: the page was torn down while the run was on its second step,
\* with its timer due; the timer is cleared and the state is as it was.
C17_Witness ==
    /\ ~mounted
    /\ lastEvent = "unmount"
    /\ phase = "running"
    /\ runToken \in Tokens
    /\ run[runToken].endedIn = "unmounted"
    /\ run[runToken].i = 1
    /\ run[runToken].timer = "none"
    /\ elapsed = SumDurations(2)
    /\ stepIndex = 1

\* The page that is never torn down.
NextLive ==
    \/ ClickUnlock
    \/ ClickReset
    \/ togglePreview
    \/ previousBeat
    \/ nextBeat
    \/ FlushEffects
    \/ TimerFire
    \/ Tick

\* The event loop runs a due timer's callback, React's scheduler flushes
\* pending effects, and time passes while a timer is waiting.
SpecLive ==
    /\ Init
    /\ [][NextLive]_vars
    /\ WF_vars(TimerFire)
    /\ WF_vars(FlushEffects)
    /\ WF_vars(Tick)

\* C18: on a page that is not torn down (where Reset is disabled while
\* running), whenever Phase is Running it eventually becomes Complete, given
\* that due timers fire, effects are flushed and time passes; and a state with
\* no effect and no timer pending has Phase Idle or Complete.
C18_RunningIsTransient ==
    /\ (phase = "running") ~> (phase = "complete")
    /\ []((~EffectsPending /\ ~TimerPending) => phase \in {"idle", "complete"})

\* C18 witness: a second run, started from a completed one, has completed.
C18_Witness ==
    /\ phase = "complete"
    /\ runToken = 2
    /\ run[1].done = 1
    /\ run[2].done = 1
    /\ ~EffectsPending
    /\ ~TimerPending

\* C19: the narration beat index is in 0..M-1 in every state, so the line
\* DEMO_SCRIPT[scriptIndex] exists.
C19_BeatInRange ==
    /\ scriptIndex \in 0..(M - 1)
    /\ (scriptIndex + 1) \in DOMAIN DEMO_SCRIPT

\* C19 witness: the run is on its last step, beyond the narration range, after
\* the user wrapped backwards from beat 0.
C19_Witness ==
    /\ phase = "running"
    /\ stepIndex = N - 1
    /\ N > M
    /\ lastEvent = "previousBeat"
    /\ beatBefore = 0
    /\ scriptIndex = M - 1

\* C20: Idle implies position (-1, 0); Complete implies (N-1, 100); Running
\* implies (-1, 0) until the effect has started the run and from then on a
\* step k in 0..N-1 with progress round(((k+1)/(N+1))*90); so the step index
\* is in -1..N-1 and progress in 0..100.
C20_PositionByPhase ==
    /\ phase = "idle" => (stepIndex = -1 /\ progress = 0)
    /\ phase = "complete" => (stepIndex = N - 1 /\ progress = 100)
    /\ phase = "running" =>
          IF runToken \in Tokens /\ run[runToken].i >= 0
          THEN /\ stepIndex \in 0..(N - 1)
               /\ IsRounded(progress, (stepIndex + 1) * 90, N + 1)
          ELSE stepIndex = -1 /\ progress = 0
    /\ stepIndex \in (-1)..(N - 1)
    /\ progress \in 0..100

\* C20 witness: a settled running state on step 3 with progress 60.
C20_Witness ==
    /\ Settled
    /\ phase = "running"
    /\ stepIndex = 3
    /\ progress = 60
    /\ run[runToken].i = 3

====
